---- MODULE Spec2Model ----
(***************************************************************************)
(* music-anki: generation of chord images (scripts/gen_chord_images.py)    *)
(* and of the Anki package built from them                                 *)
(* (scripts/gen_chord_image_anki_pkg.py), and the interval decks           *)
(* (scripts/gen_intervals_anki_pkg.py).                                    *)
(*                                                                         *)
(* The pitch arithmetic comes from the pymusictheory package and the       *)
(* chord-type tokens from gen_chords.utils; neither is part of the source  *)
(* tree, so both are modelled from the design document (sections 3, 4.1,   *)
(* 4.2, 4.6).                                                              *)
(***************************************************************************)
EXTENDS Integers, Sequences, FiniteSets, TLC

(***************************************************************************)
(* Bounds of the model.                                                    *)
(***************************************************************************)
\* The enumeration loop is followed for at most this many iterations.
MaxSteps == 14
\* Number of runs of the generator that are followed.
MaxRuns == 2
\* Longest interval list of the chord builder's harness.
MaxIntervals == 3
\* Highest octave of the spellings the properties range over.
MaxOctave == 7
\* Number of calls of gen_intervals_anki_pkg.main followed in one process.
MaxInvocations == 2

(***************************************************************************)
(* Pitch model (pymusictheory, design document 4.1).                       *)
(* A note is [letter |-> 1..7 (C..B), alteration |-> -2..2, octave].       *)
(***************************************************************************)
LetterNames == <<"C", "D", "E", "F", "G", "A", "B">>
LetterSemitone == <<0, 2, 4, 5, 7, 9, 11>>

DOUBLE_FLAT == -2
FLAT == -1
NATURAL == 0
SHARP == 1
DOUBLE_SHARP == 2
NoteAlteration == {DOUBLE_FLAT, FLAT, NATURAL, SHARP, DOUBLE_SHARP}

NoteInOctave(l, a, o) == [letter |-> l, alteration |-> a, octave |-> o]

\* letter table + alteration delta + 12 * octave
absolute_semitone_offset(n) ==
    12 * n.octave + LetterSemitone[n.letter] + n.alteration

\* The inverse: every (letter, alteration) spelling of an offset, each in the
\* octave that makes the offsets agree.
from_absolute_semitone_offset(off) ==
    { NoteInOctave(p[1], p[2], (off - LetterSemitone[p[1]] - p[2]) \div 12) :
        p \in { q \in (1..7) \X NoteAlteration :
                  (off - LetterSemitone[q[1]] - q[2]) % 12 = 0 } }

(***************************************************************************)
(* Intervals (pymusictheory, design document 3 and 4.2): a letter-step     *)
(* count and a semitone size.                                              *)
(***************************************************************************)
Interval(st, se) == [steps |-> st, semis |-> se]
PERFECT_UNISON == Interval(0, 0)
MINOR_THIRD == Interval(2, 3)
MAJOR_THIRD == Interval(2, 4)
AUGMENTED_FOURTH == Interval(3, 6)
DIMINISHED_FIFTH == Interval(4, 6)
PERFECT_FIFTH == Interval(4, 7)
MINOR_SEVENTH == Interval(6, 10)
MAJOR_SEVENTH == Interval(6, 11)
MINOR_SECOND == Interval(1, 1)
MAJOR_SECOND == Interval(1, 2)
PERFECT_FOURTH == Interval(3, 5)
MINOR_SIXTH == Interval(5, 8)
MAJOR_SIXTH == Interval(5, 9)

\* pitch + interval: step the letter, then take the alteration that makes the
\* semitone distance exact.
NoteAdd(n, iv) ==
    LET idx == (n.letter - 1) + iv.steps
        l == (idx % 7) + 1
        o == n.octave + (idx \div 7)
    IN NoteInOctave(l, absolute_semitone_offset(n) + iv.semis
                         - (12 * o + LetterSemitone[l]), o)

(***************************************************************************)
(* Order of notes (design document 3): by absolute offset, then fewer      *)
(* alteration steps first.  A sharp and a flat spelling of one offset are  *)
(* not ordered by that rule: every order of such a pair is a result of     *)
(* sorting.                                                                *)
(***************************************************************************)
AbsInt(x) == IF x < 0 THEN -x ELSE x

NoteLess(a, b) ==
    \/ absolute_semitone_offset(a) < absolute_semitone_offset(b)
    \/ /\ absolute_semitone_offset(a) = absolute_semitone_offset(b)
       /\ AbsInt(a.alteration) < AbsInt(b.alteration)

RECURSIVE SortedSeqs(_)
SortedSeqs(S) ==
    IF S = {} THEN { <<>> }
    ELSE UNION { { <<m>> \o s : s \in SortedSeqs(S \ {m}) } :
                 m \in { x \in S : \A y \in S : ~NoteLess(y, x) } }

\* sorted() where the order is decided (no sharp/flat tie among the members)
Sorted(S) == CHOOSE s \in SortedSeqs(S) : TRUE

(***************************************************************************)
(* Texts are sequences of one-character strings.                           *)
(***************************************************************************)
DigitChars == <<"0", "1", "2", "3", "4", "5", "6", "7", "8", "9">>
IsDigit(c) == \E d \in 1..10 : DigitChars[d] = c
DigitValue(c) == (CHOOSE d \in 1..10 : DigitChars[d] = c) - 1

RECURSIVE Digits(_)
Digits(k) ==
    IF k < 10 THEN << DigitChars[k + 1] >>
    ELSE Append(Digits(k \div 10), DigitChars[(k % 10) + 1])

RECURSIVE Repeat(_, _)
Repeat(c, k) == IF k <= 0 THEN <<>> ELSE <<c>> \o Repeat(c, k - 1)

\* The unicode accidentals U+266F and U+266D, each one character.
SharpGlyph == "u266F"
FlatGlyph == "u266D"

\* str(note): letter, unicode accidentals, octave
NoteStr(n) ==
    << LetterNames[n.letter] >>
    \o (IF n.alteration > 0 THEN Repeat(SharpGlyph, n.alteration)
        ELSE Repeat(FlatGlyph, -n.alteration))
    \o Digits(n.octave)

\* str.replace(old, new) for one-character old
Replace(s, old, new) ==
    [ i \in 1..Len(s) |-> IF s[i] = old THEN new ELSE s[i] ]

\* str.split(",")
RECURSIVE SplitComma(_)
SplitComma(s) ==
    IF \A i \in 1..Len(s) : s[i] # ","
    THEN << s >>
    ELSE LET k == CHOOSE i \in 1..Len(s) :
                      s[i] = "," /\ \A j \in 1..(i - 1) : s[j] # ","
         IN << SubSeq(s, 1, k - 1) >> \o SplitComma(SubSeq(s, k + 1, Len(s)))

\* str.strip()
RECURSIVE Strip(_)
Strip(s) ==
    IF s # <<>> /\ s[1] = " " THEN Strip(Tail(s))
    ELSE IF s # <<>> /\ s[Len(s)] = " " THEN Strip(SubSeq(s, 1, Len(s) - 1))
    ELSE s

RECURSIVE DigitsValue(_)
DigitsValue(s) ==
    IF s = <<>> THEN 0
    ELSE 10 * DigitsValue(SubSeq(s, 1, Len(s) - 1)) + DigitValue(s[Len(s)])

\* A parse's result: the value, or the failure.
Parsed(v) == [ ok |-> TRUE, value |-> v ]
ParseError == [ ok |-> FALSE ]

\* NoteInOctave.from_str: [A-G][#|b]*<octave-digits> (design document 4.1)
from_str(s) ==
    IF s = <<>> \/ ~(\E l \in 1..7 : LetterNames[l] = s[1]) THEN ParseError
    ELSE
      LET l == CHOOSE x \in 1..7 : LetterNames[x] = s[1]
          rest == Tail(s)
          nacc == Cardinality({ i \in 1..Len(rest) :
                                  \A j \in 1..i : rest[j] \in {"#", "b"} })
          acc == SubSeq(rest, 1, nacc)
          oct == SubSeq(rest, nacc + 1, Len(rest))
          a == IF \A i \in 1..nacc : acc[i] = "#" THEN nacc
               ELSE IF \A i \in 1..nacc : acc[i] = "b" THEN -nacc
               ELSE 99
      IN IF oct = <<>> \/ (\E i \in 1..Len(oct) : ~IsDigit(oct[i]))
            \/ a \notin NoteAlteration
         THEN ParseError
         ELSE Parsed(NoteInOctave(l, a, DigitsValue(oct)))

(***************************************************************************)
(* gen_chord_images.py: clefs, argument parsing, chord types.              *)
(***************************************************************************)
\* ClefType: name |-> (clef_sign, line_number)
ClefType == [ G |-> <<"G", 2>>, F |-> <<"F", 4>> ]

\* parse_clef: ClefType[clef_str], a KeyError becoming a ValueError
parse_clef(clef_str) ==
    IF clef_str = <<"G">> THEN Parsed(ClefType.G)
    ELSE IF clef_str = <<"F">> THEN Parsed(ClefType.F)
    ELSE ParseError

\* parse_root_range: the first two comma-separated parts, stripped; any
\* exception (a missing second part, a part that is no note) is a parse error.
parse_root_range(value) ==
    LET strs == SplitComma(value)
    IN IF Len(strs) < 2 THEN ParseError
       ELSE LET a == from_str(Strip(strs[1]))
                b == from_str(Strip(strs[2]))
            IN IF ~a.ok \/ ~b.ok THEN ParseError
               ELSE Parsed(<< a.value, b.value >>)

\* main's chord_types, in order
chord_types ==
    << [ name |-> "major_seventh",
         intervals |-> << PERFECT_UNISON, MAJOR_THIRD, PERFECT_FIFTH,
                          MAJOR_SEVENTH >> ],
       [ name |-> "dominant_seventh",
         intervals |-> << PERFECT_UNISON, MAJOR_THIRD, PERFECT_FIFTH,
                          MINOR_SEVENTH >> ],
       [ name |-> "minor_seventh",
         intervals |-> << PERFECT_UNISON, MINOR_THIRD, PERFECT_FIFTH,
                          MINOR_SEVENTH >> ] >>

\* gen_chords.utils.chord_type_to_long_symbol (design document 4.6): one
\* long-form token per chord type, kept as one element of a text.
chord_type_to_long_symbol(chord_name) ==
    IF chord_name = "major_seventh" THEN "majorseventh"
    ELSE IF chord_name = "dominant_seventh" THEN "dominantseventh"
    ELSE "minorseventh"

(***************************************************************************)
(* chord_generation's pure steps.                                          *)
(***************************************************************************)
\* Mutant of RootCandidates: the double alterations are not filtered out.
RootCandidates_KeepsDoubles(position) ==
    from_absolute_semitone_offset(position)

\* The spellings of one offset that are kept as roots.
RootCandidates(position) ==
    { note \in from_absolute_semitone_offset(position) :
        note.alteration \in {NATURAL, SHARP, FLAT} }

\* Mutant of UnionAll: the first candidate set is left out.
UnionAll_SkipsFirst(sets) == UNION { sets[k] : k \in 2..Len(sets) }

\* set.union(*roots_with_duplicates), for a list that is not empty
UnionAll(sets) == UNION { sets[k] : k \in 1..Len(sets) }

\* Mutant of BuildChord: one member per offset, spellings of one offset
\* collapsing into one of them.
BuildChord_ByOffset(root, intervals) ==
    LET all == { NoteAdd(root, intervals[k]) : k \in 1..Len(intervals) }
    IN { n \in all :
           n = CHOOSE m \in all :
                   absolute_semitone_offset(m) = absolute_semitone_offset(n) }

\* Chord({root + interval for interval in intervals})
BuildChord(root, intervals) ==
    { NoteAdd(root, intervals[k]) : k \in 1..Len(intervals) }

\* Mutant of MusicXml: the chord marker is on the first note instead of on
\* the later ones.
MusicXml_MarksFirst(sorted_notes, clef_type) ==
    [ sign |-> clef_type[1],
      line |-> clef_type[2],
      notes |-> [ k \in 1..Len(sorted_notes) |->
                    [ chord_marker |-> (k - 1 = 0),
                      step |-> LetterNames[sorted_notes[k].letter],
                      alter |-> sorted_notes[k].alteration,
                      octave |-> sorted_notes[k].octave,
                      duration |-> 4,
                      type |-> "whole" ] ] ]

\* chord_to_musicxml, for the members in the order sorted() gave them: the
\* clef's sign and line, and one note element per member.
MusicXml(sorted_notes, clef_type) ==
    [ sign |-> clef_type[1],
      line |-> clef_type[2],
      notes |-> [ k \in 1..Len(sorted_notes) |->
                    [ chord_marker |-> (k - 1 # 0),
                      step |-> LetterNames[sorted_notes[k].letter],
                      alter |-> sorted_notes[k].alteration,
                      octave |-> sorted_notes[k].octave,
                      duration |-> 4,
                      type |-> "whole" ] ] ]

chord_to_musicxml(chord, clef_type) == MusicXml(Sorted(chord), clef_type)

\* Mutant of Filestem: the stem is taken from the highest note.
Filestem_Highest(chord) ==
    Replace(Replace(NoteStr(Sorted(chord)[Cardinality(chord)]), SharpGlyph, "#"),
            FlatGlyph, "b")

\* The file stem of a chord: its lowest note, accidentals in ASCII.
Filestem(chord) ==
    Replace(Replace(NoteStr(Sorted(chord)[1]), SharpGlyph, "#"),
            FlatGlyph, "b")

\* main's new stem of an image: f"{stem}_{chord_type_to_long_symbol(name)}"
SuffixedStem(stem, chord_name) ==
    stem \o << "_", chord_type_to_long_symbol(chord_name) >>

(***************************************************************************)
(* gen_chord_image_anki_pkg.py                                             *)
(***************************************************************************)
\* re.split(r"(\d+)", stem, maxsplit=1)[0]: the text before the first digit
SplitFirstDigits(stem) ==
    LET digits == { k \in 1..Len(stem) : IsDigit(stem[k]) }
    IN IF digits = {} THEN stem
       ELSE SubSeq(stem, 1,
                   (CHOOSE k \in digits : \A j \in digits : k <= j) - 1)

\* long_chord_name, the note's GUID
LongChordName(stem, folder) ==
    SplitFirstDigits(stem) \o << chord_type_to_long_symbol(folder) >>

(***************************************************************************)
(* scripts/gen_intervals_anki_pkg.py: the texts ROOT_GENERATOR parses, in  *)
(* the order it yields them, and INTERVALS.                                *)
(***************************************************************************)
ROOT_TEXTS ==
    << <<"C", "4">>, <<"C", "#", "4">>, <<"D", "b", "4">>, <<"D", "4">>,
       <<"D", "#", "4">>, <<"E", "b", "4">>, <<"E", "4">>, <<"F", "4">>,
       <<"F", "#", "4">>, <<"G", "b", "4">>, <<"G", "4">>, <<"G", "#", "4">>,
       <<"A", "b", "4">>, <<"A", "4">>, <<"A", "#", "4">>, <<"B", "b", "4">>,
       <<"B", "4">> >>

INTERVALS ==
    << << "minor second", MINOR_SECOND >>,
       << "major second", MAJOR_SECOND >>,
       << "minor third", MINOR_THIRD >>,
       << "major third", MAJOR_THIRD >>,
       << "perfect fourth", PERFECT_FOURTH >>,
       << "perfect fifth", PERFECT_FIFTH >>,
       << "minor sixth", MINOR_SIXTH >>,
       << "major sixth", MAJOR_SIXTH >>,
       << "minor seventh", MINOR_SEVENTH >>,
       << "major seventh", MAJOR_SEVENTH >> >>

\* re.sub(r"\d+", "", s)
NotDigit(c) == ~IsDigit(c)
RemoveDigits(s) == SelectSeq(s, NotDigit)

\* list(generator): every item the generator has left, parsed as it is drawn.
ListOf(texts) == [ k \in 1..Len(texts) |-> from_str(texts[k]).value ]

\* The note main adds to the deck of a variant for a root and an entry of
\* INTERVALS: the GUID and the four fields.
IntervalGuid(variant, root, entry) ==
    << variant, "-" >> \o RemoveDigits(NoteStr(root))
    \o << "-", entry[1], "-" >> \o RemoveDigits(NoteStr(NoteAdd(root, entry[2])))

IntervalNote(variant, root, entry) ==
    [ guid |-> IntervalGuid(variant, root, entry),
      fields |-> << IntervalGuid(variant, root, entry),
                    RemoveDigits(NoteStr(root)),
                    entry[1],
                    RemoveDigits(NoteStr(NoteAdd(root, entry[2]))) >> ]

(***************************************************************************)
(* State.                                                                  *)
(***************************************************************************)
VARIABLES
    argv,          \* the command line: [clef, root_range], two texts
    pc,            \* where the program is
    error,         \* "" or the exception that ended the program
    args,          \* the parsed arguments, once parsed
    run,           \* number of the run of gen_chord_images (1, 2, ...)
    folder_path,   \* the output directory of the current run
    dirOf,         \* history: the output directory of each run (0: no run yet)
    ct,            \* main's position in chord_types
    current_note_position,
    roots_with_duplicates,
    roots,
    sorted_roots,
    chords,
    musicxmls,
    i,             \* position of chord_generation's render loop
    calls,         \* history: the renderer's invocations of the current call
    ncalls,        \* history: invocations per chord type in the current run
    fs,            \* the image files: [dir, folder, stem, img]
    dirs,          \* the directories made: <<dir, folder>>
    globbed,       \* main's glob: the stems still to rename
    nrenames,      \* history: renames done by main
    committed,     \* history: the files present when the previous run completed
    oklog,         \* history: per run, the <<folder, root>> rendered
    chordlog,      \* history: per run, the <<folder, root, chord>> built
    deck,          \* the notes of the Anki package, once built
    harness,       \* the chord builder's harness (SpecChord)
    ROOT_GENERATOR,\* gen_intervals_anki_pkg: the texts the generator has left
    ipc,           \* gen_intervals_anki_pkg: where the script is
    invocation,    \* history: number of calls of its main in this process
    root_list,     \* main's list(ROOT_GENERATOR)
    root_idx,      \* position of main's loop over the roots
    interval_idx,  \* position of main's loop over INTERVALS
    deck1,         \* the notes of deck1, in the order added
    deck2,         \* the notes of deck2, in the order added
    packages       \* the package files written: [name, notes]

vars == << argv, pc, error, args, run, folder_path, dirOf, ct,
           current_note_position, roots_with_duplicates, roots, sorted_roots,
           chords, musicxmls, i, calls, ncalls, fs, dirs, globbed, nrenames,
           committed, oklog, chordlog, deck, harness,
           ROOT_GENERATOR, ipc, invocation, root_list, root_idx, interval_idx,
           deck1, deck2, packages >>

ivVars == << ROOT_GENERATOR, ipc, invocation, root_list, root_idx,
             interval_idx, deck1, deck2, packages >>

cgVars == << current_note_position, roots_with_duplicates, roots,
             sorted_roots, chords, musicxmls, i >>

(***************************************************************************)
(* The command lines followed.                                             *)
(***************************************************************************)
ClefTexts == { <<"G">>, <<"F">>, <<"X">> }

RangeTexts ==
    { <<"D", "4", ",", " ", "D", "#", "4">>,      \* one offset, one root
      <<"D", "#", "4", ",", "E", "4">>,           \* one offset, two roots
      <<"E", "4", ",", "F", "#", "4">>,           \* two offsets, four roots
      <<"A", "#", "3", ",", "C", "#", "4">>,      \* three offsets, two octaves
      <<"C", "4", ",", "C", "4">>,                \* start = end
      <<"E", "4", ",", "D", "4">>,                \* start above end
      <<"C", "4", ",", "C", "5">>,                \* one octave
      <<"C", "4", ",", "C", "#", "5">>,           \* thirteen offsets
      <<"C", "4">>,                               \* no second part
      <<"H", "4", ",", "C", "5">>,                \* no such letter
      <<"C", "4", ",", "C">> }                    \* no octave

\* The command lines whose renders may fail (the longer ranges are followed
\* with a renderer that works), and the one that is run more than once.
FaultTexts ==
    { <<"D", "4", ",", " ", "D", "#", "4">>,
      <<"D", "#", "4", ",", "E", "4">> }

RerunTexts == { <<"D", "4", ",", " ", "D", "#", "4">> }

RunIds == 1..MaxRuns

InitProgram ==
    /\ argv \in [ clef : ClefTexts, root_range : RangeTexts ]
    /\ pc = "entry"
    /\ error = ""
    /\ args = << >>
    /\ run = 1
    /\ folder_path = 1
    /\ dirOf = [ r \in RunIds |-> IF r = 1 THEN 1 ELSE 0 ]
    /\ ct = 1
    /\ current_note_position = 0
    /\ roots_with_duplicates = << >>
    /\ roots = {}
    /\ sorted_roots = << >>
    /\ chords = << >>
    /\ musicxmls = << >>
    /\ i = 1
    /\ calls = << >>
    /\ ncalls = [ c \in 1..Len(chord_types) |-> 0 ]
    /\ fs = {}
    /\ dirs = {}
    /\ globbed = {}
    /\ nrenames = 0
    /\ committed = {}
    /\ oklog = [ r \in RunIds |-> {} ]
    /\ chordlog = [ r \in RunIds |-> {} ]
    /\ deck = {}

\* gen_intervals_anki_pkg once imported: the generator has yielded nothing,
\* main has not been called.
InitIntervalsModule ==
    /\ ROOT_GENERATOR = ROOT_TEXTS
    /\ ipc = "entry"
    /\ invocation = 0
    /\ root_list = << >>
    /\ root_idx = 1
    /\ interval_idx = 1
    /\ deck1 = << >>
    /\ deck2 = << >>
    /\ packages = {}

Init ==
    /\ InitProgram
    /\ harness = [ pc |-> "idle" ]
    /\ InitIntervalsModule

\* Mutant of ParseArgs: a clef that does not parse falls back to the G clef.
ParseArgs_ClefDefault ==
    /\ pc = "entry"
    /\ LET c == parse_clef(argv.clef)
           r == parse_root_range(argv.root_range)
       IN IF ~r.ok
          THEN /\ pc' = "exit"
               /\ error' = "usage"
               /\ args' = args
          ELSE /\ pc' = "main"
               /\ error' = error
               /\ args' = [ clef |-> IF c.ok THEN c.value ELSE ClefType.G,
                            root_range |-> r.value ]
    /\ UNCHANGED << argv, run, folder_path, dirOf, ct, cgVars, calls, ncalls,
                    fs, dirs, globbed, nrenames, committed, oklog, chordlog,
                    deck, harness, ivVars >>

(***************************************************************************)
(* entry: parser.parse_args(), then main(args).  A type function that      *)
(* raises makes argparse print the usage and exit before main is called.   *)
(***************************************************************************)
ParseArgs ==
    /\ pc = "entry"
    /\ LET c == parse_clef(argv.clef)
           r == parse_root_range(argv.root_range)
       IN IF ~c.ok \/ ~r.ok
          THEN /\ pc' = "exit"
               /\ error' = "usage"
               /\ args' = args
          ELSE /\ pc' = "main"
               /\ error' = error
               /\ args' = [ clef |-> c.value, root_range |-> r.value ]
    /\ UNCHANGED << argv, run, folder_path, dirOf, ct, cgVars, calls, ncalls,
                    fs, dirs, globbed, nrenames, committed, oklog, chordlog,
                    deck, harness, ivVars >>

(***************************************************************************)
(* main: for chord_name, intervals in chord_types                          *)
(***************************************************************************)
\* The next chord type: chord_generation is called.
MainCall ==
    /\ pc = "main"
    /\ ct <= Len(chord_types)
    /\ pc' = "enum"
    /\ current_note_position' = absolute_semitone_offset(args.root_range[1])
    /\ roots_with_duplicates' = << >>
    /\ calls' = << >>
    /\ UNCHANGED << argv, error, args, run, folder_path, dirOf, ct, roots,
                    sorted_roots, chords, musicxmls, i, ncalls, fs, dirs,
                    globbed, nrenames, committed, oklog, chordlog, deck,
                    harness, ivVars >>

\* chord_types is exhausted: main returns and the program ends.
MainReturn ==
    /\ pc = "main"
    /\ ct > Len(chord_types)
    /\ pc' = "done"
    /\ UNCHANGED << argv, error, args, run, folder_path, dirOf, ct, cgVars,
                    calls, ncalls, fs, dirs, globbed, nrenames, committed,
                    oklog, chordlog, deck, harness, ivVars >>

(***************************************************************************)
(* chord_generation                                                        *)
(***************************************************************************)
\* One iteration of: while current_note_position != root_range[1].offset
EnumStep ==
    /\ pc = "enum"
    /\ current_note_position # absolute_semitone_offset(args.root_range[2])
    /\ Len(roots_with_duplicates) < MaxSteps
    /\ roots_with_duplicates' =
           Append(roots_with_duplicates, RootCandidates(current_note_position))
    /\ current_note_position' = current_note_position + 1
    /\ UNCHANGED << argv, pc, error, args, run, folder_path, dirOf, ct, roots,
                    sorted_roots, chords, musicxmls, i, calls, ncalls, fs,
                    dirs, globbed, nrenames, committed, oklog, chordlog, deck,
                    harness, ivVars >>

\* The loop ends: the union of the candidate sets (set.union with no argument
\* raises TypeError), the sorted roots, the chords, their documents, and the
\* output directory.
EnumExit ==
    /\ pc = "enum"
    /\ current_note_position = absolute_semitone_offset(args.root_range[2])
    /\ IF roots_with_duplicates = << >>
       THEN /\ pc' = "raised"
            /\ error' = "TypeError"
            /\ UNCHANGED << roots, sorted_roots, chords, musicxmls, i, dirs,
                            chordlog >>
       ELSE \E sr \in SortedSeqs(UnionAll(roots_with_duplicates)) :
              LET ivs == chord_types[ct].intervals
                  cs == [ k \in 1..Len(sr) |-> BuildChord(sr[k], ivs) ]
              IN /\ roots' = UnionAll(roots_with_duplicates)
                 /\ sorted_roots' = sr
                 /\ chords' = cs
                 /\ musicxmls' = [ k \in 1..Len(sr) |->
                                     chord_to_musicxml(cs[k], args.clef) ]
                 /\ dirs' = dirs \cup { << folder_path, chord_types[ct].name >> }
                 /\ chordlog' = [ chordlog EXCEPT ![run] = @ \cup
                        { << chord_types[ct].name, sr[k], cs[k] >> :
                            k \in 1..Len(sr) } ]
                 /\ i' = 1
                 /\ pc' = "render"
                 /\ error' = error
    /\ UNCHANGED << argv, args, run, folder_path, dirOf, ct,
                    current_note_position, roots_with_duplicates, calls,
                    ncalls, fs, globbed, nrenames, committed, oklog, deck,
                    harness, ivVars >>

\* What running mscore can do.
RenderOutcomes == { "ok", "CalledProcessError", "FileNotFoundError" }

\* Mutant of Caught: the handler of FileNotFoundError is missing.
Caught_ExitOnly(outcome) == outcome = "CalledProcessError"

\* musicxml_to_png's handlers: except CalledProcessError, except
\* FileNotFoundError.
Caught(outcome) == outcome \in { "CalledProcessError", "FileNotFoundError" }

\* One chord of the render loop: musicxml_to_png(musicxml, filepath).  The
\* renderer writes "<stem>-1.png", which is renamed to "<stem>.png"; a caught
\* exception is reported and the loop goes on, any other ends the program.
Render(outcome) ==
    /\ pc = "render"
    /\ i <= Len(chords)
    /\ outcome = "ok" \/ argv.root_range \in FaultTexts
    /\ IF outcome = "ok" \/ Caught(outcome)
       THEN pc' = pc /\ error' = error
       ELSE pc' = "raised" /\ error' = outcome
    /\ LET folder == chord_types[ct].name
           filestem == Filestem(chords[i])
       IN /\ fs' = IF outcome = "ok"
                   THEN { f \in fs : ~( f.dir = folder_path /\ f.folder = folder
                                        /\ f.stem = filestem ) }
                        \cup { [ dir |-> folder_path, folder |-> folder,
                                 stem |-> filestem, img |-> musicxmls[i] ] }
                   ELSE fs
          /\ oklog' = IF outcome = "ok"
                      THEN [ oklog EXCEPT ![run] =
                               @ \cup { << folder, sorted_roots[i] >> } ]
                      ELSE oklog
    /\ calls' = Append(calls, [ chord |-> i, outcome |-> outcome ])
    /\ ncalls' = [ ncalls EXCEPT ![ct] = @ + 1 ]
    /\ i' = i + 1
    /\ UNCHANGED << argv, args, run, folder_path, dirOf, ct,
                    current_note_position, roots_with_duplicates, roots,
                    sorted_roots, chords, musicxmls, dirs, globbed, nrenames,
                    committed, chordlog, deck, harness, ivVars >>

\* chord_generation returns (its locals are gone); main globs "**/*.png" of
\* the chord type's folder.  The directory is listed before the first rename.
RenderReturn ==
    /\ pc = "render"
    /\ i > Len(chords)
    /\ globbed' = { f.stem : f \in { g \in fs : g.dir = folder_path
                                       /\ g.folder = chord_types[ct].name } }
    /\ pc' = "rename"
    /\ current_note_position' = 0
    /\ roots_with_duplicates' = << >>
    /\ roots' = {}
    /\ sorted_roots' = << >>
    /\ chords' = << >>
    /\ musicxmls' = << >>
    /\ i' = 1
    /\ UNCHANGED << argv, error, args, run, folder_path, dirOf, ct, calls,
                    ncalls, fs, dirs, nrenames, committed, oklog, chordlog,
                    deck, harness, ivVars >>

\* The text of a stem before its first "_": the root's name.
StemRoot(stem) ==
    LET us == { k \in 1..Len(stem) : stem[k] = "_" }
    IN IF us = {} THEN stem
       ELSE SubSeq(stem, 1, (CHOOSE k \in us : \A j \in us : k <= j) - 1)

\* One image of the glob is renamed; a file already under the new name is
\* replaced.  The glob's order is the directory's.  Renames of images of
\* different roots touch different names and commute, so the images are
\* taken root by root, those of one root in any order.
RenameStep ==
    /\ pc = "rename"
    /\ globbed # {}
    /\ \E stem \in { e \in globbed :
                       StemRoot(e) = StemRoot(CHOOSE x \in globbed : TRUE) } :
         LET folder == chord_types[ct].name
             old == CHOOSE f \in fs : f.dir = folder_path /\ f.folder = folder
                                      /\ f.stem = stem
             new == SuffixedStem(stem, folder)
         IN /\ fs' = { f \in fs : ~( f.dir = folder_path /\ f.folder = folder
                                     /\ f.stem \in { stem, new } ) }
                     \cup { [ old EXCEPT !.stem = new ] }
            /\ globbed' = globbed \ { stem }
    /\ nrenames' = nrenames + 1
    /\ UNCHANGED << argv, pc, error, args, run, folder_path, dirOf, ct, cgVars,
                    calls, ncalls, dirs, committed, oklog, chordlog, deck,
                    harness, ivVars >>

\* The glob is exhausted: the next chord type.
RenameDone ==
    /\ pc = "rename"
    /\ globbed = {}
    /\ ct' = ct + 1
    /\ pc' = "main"
    /\ UNCHANGED << argv, error, args, run, folder_path, dirOf, cgVars, calls,
                    ncalls, fs, dirs, globbed, nrenames, committed, oklog,
                    chordlog, deck, harness, ivVars >>

(***************************************************************************)
(* The program is run again with the same command line, into a directory   *)
(* used before or into a fresh one.                                        *)
(***************************************************************************)
Rerun ==
    /\ pc = "done"
    /\ run < MaxRuns
    /\ argv.root_range \in RerunTexts
    /\ \E d \in 1..(run + 1) :
         /\ folder_path' = d
         /\ dirOf' = [ dirOf EXCEPT ![run + 1] = d ]
    /\ run' = run + 1
    /\ ct' = 1
    /\ pc' = "main"
    /\ calls' = << >>
    /\ ncalls' = [ c \in 1..Len(chord_types) |-> 0 ]
    /\ committed' = fs
    /\ UNCHANGED << argv, error, args, cgVars, fs, dirs, globbed, nrenames,
                    oklog, chordlog, deck, harness, ivVars >>

(***************************************************************************)
(* gen_chord_image_anki_pkg.main over an output directory: one note per    *)
(* image, its GUID the long chord name.                                    *)
(***************************************************************************)
PackageNotes(d) ==
    { [ path |-> << f.folder, f.stem >>,
        image |-> f.stem,
        guid |-> LongChordName(f.stem, f.folder) ] :
        f \in { g \in fs : g.dir = d } }

BuildPackage ==
    /\ pc = "done"
    /\ deck' = PackageNotes(folder_path)
    /\ pc' = "packaged"
    /\ UNCHANGED << argv, error, args, run, folder_path, dirOf, ct, cgVars,
                    calls, ncalls, fs, dirs, globbed, nrenames, committed,
                    oklog, chordlog, harness, ivVars >>

Next ==
    \/ ParseArgs
    \/ MainCall
    \/ MainReturn
    \/ EnumStep
    \/ EnumExit
    \/ \E outcome \in RenderOutcomes : Render(outcome)
    \/ RenderReturn
    \/ RenameStep
    \/ RenameDone
    \/ Rerun
    \/ BuildPackage

Spec == Init /\ [][Next]_vars

(***************************************************************************)
(* The chord builder and the document emitter on their own: a root, an     *)
(* interval list and a clef are drawn, the chord is built as                *)
(* chord_generation builds it and serialised as chord_to_musicxml does.    *)
(***************************************************************************)
HarnessRoots ==
    { NoteInOctave(p[1], p[2], 4) : p \in (1..7) \X {FLAT, NATURAL, SHARP} }

HarnessIntervals ==
    { PERFECT_UNISON, MAJOR_THIRD, AUGMENTED_FOURTH, DIMINISHED_FIFTH,
      PERFECT_FIFTH }

IntervalLists == UNION { [ 1..n -> HarnessIntervals ] : n \in 0..MaxIntervals }

InitChord ==
    /\ InitProgram
    /\ argv = [ clef |-> <<"G">>, root_range |-> <<"C", "4">> ]
    /\ harness \in [ pc : { "start" }, root : HarnessRoots,
                      intervals : IntervalLists,
                      clef : { ClefType.G, ClefType.F },
                      chord : { {} }, doc : { << >> } ]
    /\ InitIntervalsModule

programVars == << argv, pc, error, args, run, folder_path, dirOf, ct, cgVars,
                  calls, ncalls, fs, dirs, globbed, nrenames, committed,
                  oklog, chordlog, deck >>

HarnessBuild ==
    /\ harness.pc = "start"
    /\ harness' = [ harness EXCEPT
                      !.pc = "built",
                      !.chord = BuildChord(harness.root, harness.intervals) ]
    /\ UNCHANGED << programVars, ivVars >>

\* sorted(chord) is any order the notes' comparison allows.
HarnessEmit ==
    /\ harness.pc = "built"
    /\ \E s \in SortedSeqs(harness.chord) :
         harness' = [ harness EXCEPT !.pc = "emitted",
                                     !.doc = MusicXml(s, harness.clef) ]
    /\ UNCHANGED << programVars, ivVars >>

NextChord == HarnessBuild \/ HarnessEmit

SpecChord == InitChord /\ [][NextChord]_vars

(***************************************************************************)
(* scripts/gen_intervals_anki_pkg.py: main is called by entry(), and may   *)
(* be called again by whatever imported the module; ROOT_GENERATOR is the  *)
(* module's, deck1 and deck2 are each call's own.                          *)
(***************************************************************************)
\* main is called: the two decks are made and list(ROOT_GENERATOR) draws
\* every item the generator has left.
IntervalsMainCall ==
    /\ \/ ipc = "entry"
       \/ ipc = "returned" /\ invocation < MaxInvocations
    /\ invocation' = invocation + 1
    /\ deck1' = << >>
    /\ deck2' = << >>
    /\ root_list' = ListOf(ROOT_GENERATOR)
    /\ ROOT_GENERATOR' = << >>
    /\ root_idx' = 1
    /\ interval_idx' = 1
    /\ ipc' = "loop"
    /\ UNCHANGED << programVars, harness, packages >>

\* One pass of the inner loop: a note for each deck.
IntervalsAddNotes ==
    /\ ipc = "loop"
    /\ root_idx <= Len(root_list)
    /\ LET root == root_list[root_idx]
           entry == INTERVALS[interval_idx]
       IN /\ deck1' = Append(deck1, IntervalNote("intervals_variant1", root, entry))
          /\ deck2' = Append(deck2, IntervalNote("intervals_variant2", root, entry))
    /\ IF interval_idx < Len(INTERVALS)
       THEN /\ interval_idx' = interval_idx + 1
            /\ root_idx' = root_idx
       ELSE /\ interval_idx' = 1
            /\ root_idx' = root_idx + 1
    /\ UNCHANGED << programVars, harness, ROOT_GENERATOR, ipc, invocation,
                    root_list, packages >>

\* The loops have ended: the two packages are written and main returns.
IntervalsWrite ==
    /\ ipc = "loop"
    /\ root_idx > Len(root_list)
    /\ packages' = { [ name |-> "variant1.apkg", notes |-> deck1 ],
                     [ name |-> "variant2.apkg", notes |-> deck2 ] }
    /\ ipc' = "returned"
    /\ UNCHANGED << programVars, harness, ROOT_GENERATOR, invocation,
                    root_list, root_idx, interval_idx, deck1, deck2 >>

InitIntervals ==
    /\ InitProgram
    /\ argv = [ clef |-> <<"G">>, root_range |-> <<"C", "4">> ]
    /\ harness = [ pc |-> "idle" ]
    /\ InitIntervalsModule

NextIntervals == IntervalsMainCall \/ IntervalsAddNotes \/ IntervalsWrite

SpecIntervals == InitIntervals /\ [][NextIntervals]_vars

(***************************************************************************)
(* Properties.                                                             *)
(***************************************************************************)
ArgsParsed == pc \notin { "entry", "exit" }
RangeStart == absolute_semitone_offset(args.root_range[1])
RangeEnd == absolute_semitone_offset(args.root_range[2])

Spellings ==
    { NoteInOctave(p[1], p[2], p[3]) :
        p \in (1..7) \X NoteAlteration \X (0..MaxOctave) }

IsInjective(seq) ==
    \A j, k \in 1..Len(seq) : j # k => seq[j] # seq[k]

\* C1: once the enumeration loop of a range with start below end has ended,
\* the roots are exactly the natural, sharp and flat spellings whose offset
\* lies in [start, end), and the sorted roots list each of them once.
C1_RootsExact ==
    (pc = "render" /\ RangeStart < RangeEnd) =>
        /\ roots = { n \in Spellings :
                       /\ RangeStart <= absolute_semitone_offset(n)
                       /\ absolute_semitone_offset(n) < RangeEnd
                       /\ n.alteration \in {NATURAL, SHARP, FLAT} }
        /\ IsInjective(sorted_roots)
        /\ { sorted_roots[k] : k \in 1..Len(sorted_roots) } = roots

\* C1's case: the roots of a range of thirteen offsets have been computed.
C1_Witness ==
    /\ pc = "render"
    /\ RangeEnd - RangeStart = 13
    /\ NoteInOctave(7, SHARP, 3) \in roots
    /\ NoteInOctave(1, NATURAL, 5) \in roots

\* C2 as claimed: in the package built from the images of one generation
\* run, notes of different images have different GUIDs.
C2_GuidsUnique ==
    (pc = "packaged" /\ run = 1) =>
        \A m, n \in deck : m.path # n.path => m.guid # n.guid

\* C4 as claimed: when a later run into a directory has completed, every
\* image the earlier run left is still there under its name with its content,
\* no image carries a second chord-type suffix, and no two chords of the run
\* had the same path.
C4_AppendOnly ==
    (pc = "done") =>
        /\ committed \subseteq fs
        /\ \A f \in fs :
             Cardinality({ k \in 1..Len(f.stem) : f.stem[k] = "_" }) <= 1
        /\ \A x, y \in chordlog[run] :
             (x[1] = y[1] /\ x # y) => Filestem(x[3]) # Filestem(y[3])

\* C5 as claimed: chord_generation over a range whose start and end have the
\* same offset does not fail.
C5_EmptyRangeReturns ==
    (ArgsParsed /\ RangeStart = RangeEnd) => pc # "raised"

\* C8: a command line whose clef or root range does not parse does no work:
\* no root is enumerated, no directory made, the renderer never invoked, no
\* file written or renamed, and main is never entered.
C8_ParseFailureNoWork ==
    (~parse_clef(argv.clef).ok \/ ~parse_root_range(argv.root_range).ok) =>
        /\ pc \in { "entry", "exit" }
        /\ roots_with_duplicates = << >>
        /\ roots = {}
        /\ dirs = {}
        /\ calls = << >>
        /\ \A c \in DOMAIN ncalls : ncalls[c] = 0
        /\ nrenames = 0
        /\ fs = {}

\* C8's case: the clef parses, the root range does not, the program has exited.
C8_Witness ==
    /\ pc = "exit"
    /\ error = "usage"
    /\ parse_clef(argv.clef).ok
    /\ ~parse_root_range(argv.root_range).ok

C4Note == NoteInOctave(1, NATURAL, 4)
C5Note == NoteInOctave(1, NATURAL, 5)

\* C9 as claimed: the roots of C4 (included) to C5 (excluded) are 17.
C9_SeventeenRoots ==
    (pc = "render" /\ args.root_range = << C4Note, C5Note >>) =>
        Cardinality(roots) = 17

\* C9, amended: the roots of C4 (included) to C5 (excluded) are 21: the seven
\* naturals, C#/Db, D#/Eb, F#/Gb, G#/Ab, A#/Bb of octave 4, and E#4, Fb4, B#3
\* and Cb5.
C9_TwentyOneRoots ==
    (pc = "render" /\ args.root_range = << C4Note, C5Note >>) =>
        /\ Cardinality(roots) = 21
        /\ Cardinality({ n \in roots : n.alteration = NATURAL }) = 7
        /\ { NoteInOctave(3, SHARP, 4), NoteInOctave(4, FLAT, 4),
             NoteInOctave(7, SHARP, 3), NoteInOctave(1, FLAT, 5) }
           \subseteq roots

\* C9's case: the roots of C4 to C5 have been computed.
C9_Witness ==
    /\ pc = "render"
    /\ args.root_range = << C4Note, C5Note >>
    /\ Len(sorted_roots) > 0

\* The chords built for chord type c in the current run.
ChordsOf(c) == { x \in chordlog[run] : x[1] = chord_types[c].name }

\* C3: whatever the renders' outcomes, the render loop invokes the renderer
\* once per chord, in order, and goes on: the program never ends in an
\* exception after a render, each completed call has rendered each of its
\* chords once, and main completes with all three chord types generated.
C3_RenderFailuresIsolated ==
    /\ pc = "render" =>
           /\ Len(calls) = i - 1
           /\ \A k \in 1..Len(calls) : calls[k].chord = k
    /\ pc = "raised" => \A c \in DOMAIN ncalls : ncalls[c] = 0
    /\ pc = "rename" =>
           /\ Len(calls) = Cardinality(ChordsOf(ct))
           /\ \A k \in 1..Len(calls) : calls[k].chord = k
    /\ pc \in { "rename", "main", "done", "packaged" } =>
           \A c \in DOMAIN ncalls :
               ( c < ct \/ (c = ct /\ pc = "rename") ) =>
                   ncalls[c] = Cardinality(ChordsOf(c))
    /\ pc \in { "done", "packaged" } =>
           \A c \in DOMAIN ncalls :
               ncalls[c] > 0 /\ ncalls[c] = Cardinality(ChordsOf(c))

\* C3's case: in the first chord type every render failed, in the last call
\* the renderer was not found for the first chord and worked for the second,
\* and main has completed.
C3_Witness ==
    /\ pc = "done"
    /\ run = 1
    /\ Len(calls) = 2
    /\ calls[1].outcome = "FileNotFoundError"
    /\ calls[2].outcome = "ok"
    /\ ncalls[1] = 2
    /\ ~(\E f \in fs : f.folder = chord_types[1].name)
    /\ \E f \in fs : f.folder = chord_types[3].name

\* The note a document's note element spells.
ElementNote(e) ==
    NoteInOctave(CHOOSE l \in 1..7 : LetterNames[l] = e.step, e.alter, e.octave)

C7_OneStackedSonority ==
    harness.pc = "emitted" =>
        LET es == harness.doc.notes
        IN /\ Len(es) = Cardinality(harness.chord)
           /\ { ElementNote(es[k]) : k \in 1..Len(es) } = harness.chord
           /\ \A j, k \in 1..Len(es) :
                j < k => absolute_semitone_offset(ElementNote(es[j]))
                           <= absolute_semitone_offset(ElementNote(es[k]))
           /\ \A k \in 1..Len(es) : es[k].chord_marker = (k > 1)
           /\ \A k \in 1..Len(es) : es[k].type = "whole"
           /\ << harness.doc.sign, harness.doc.line >> = harness.clef

\* C7's case: the document of a chord of three notes on the F clef.
C7_Witness ==
    /\ harness.pc = "emitted"
    /\ harness.clef = ClefType.F
    /\ Cardinality(harness.chord) = 3
    /\ Len(harness.doc.notes) = 3
    /\ harness.doc.notes[3].chord_marker

\* The ASCII name of a root: letter, "#" or "b" per alteration step, octave.
RootAscii(n) ==
    << LetterNames[n.letter] >>
    \o (IF n.alteration > 0 THEN Repeat("#", n.alteration)
        ELSE Repeat("b", -n.alteration))
    \o Digits(n.octave)

Completed(r) == r < run \/ (r = run /\ pc \in { "done", "packaged" })
OwnDirectory(r) == \A q \in 1..run : q # r => dirOf[q] # dirOf[r]
RunStems(r) == { << f.folder, f.stem >> : f \in { g \in fs : g.dir = dirOf[r] } }
RunGuids(r) == { n.guid : n \in PackageNotes(dirOf[r]) }

\* C10: the stems a completed run leaves in a directory of its own are those
\* of the chords rendered, whatever the order the roots and the images were
\* taken in; two completed runs of the same command line, each into a
\* directory of its own and with the same renders succeeding, leave the same
\* stems and GUIDs and have built the same chords.
C10_RunsAgree ==
    /\ \A r \in 1..run :
         ( Completed(r) /\ OwnDirectory(r) ) =>
             RunStems(r) = { << x[1], RootAscii(x[2])
                                      \o << "_", chord_type_to_long_symbol(x[1]) >> >> :
                             x \in oklog[r] }
    /\ \A q, r \in 1..run :
         ( /\ Completed(q) /\ Completed(r)
           /\ OwnDirectory(q) /\ OwnDirectory(r)
           /\ oklog[q] = oklog[r] ) =>
             /\ RunStems(q) = RunStems(r)
             /\ RunGuids(q) = RunGuids(r)
             /\ chordlog[q] = chordlog[r]

\* C10's case: two runs, the second into a fresh directory, have completed
\* with the same renders succeeding, and images were written.
C10_Witness ==
    /\ pc = "done"
    /\ run = 2
    /\ dirOf[2] # dirOf[1]
    /\ oklog[1] = oklog[2]
    /\ Cardinality(oklog[1]) = 2
    /\ RunStems(2) # {}

RangeLength == IF RangeEnd > RangeStart THEN RangeEnd - RangeStart ELSE 0

\* C11 as claimed: the root-enumeration loop of chord_generation visits no
\* more offsets than the closed-open range [start, end) holds, which is
\* max(0, end.offset - start.offset), and has visited exactly that many when
\* it has ended; a range whose start lies above its end is visited by no step.
C11_LoopVisitsRange ==
    /\ (pc = "enum") => Len(roots_with_duplicates) <= RangeLength
    /\ (pc = "render") => Len(roots_with_duplicates) = RangeLength

Guids(notes) == [ k \in 1..Len(notes) |-> notes[k].guid ]

\* C12 as claimed: every call of gen_intervals_anki_pkg.main in one process,
\* the first and any later one, has added one note per listed root and listed
\* interval (17 x 10 = 170) to each of its two decks when it returns, with
\* pairwise distinct GUIDs inside each deck and no GUID in both decks.
C12_EveryInvocationFills ==
    (ipc = "returned") =>
        /\ Len(deck1) = Len(ROOT_TEXTS) * Len(INTERVALS)
        /\ Len(deck2) = Len(ROOT_TEXTS) * Len(INTERVALS)
        /\ IsInjective(Guids(deck1))
        /\ IsInjective(Guids(deck2))
        /\ \A j \in 1..Len(deck1), k \in 1..Len(deck2) :
             deck1[j].guid # deck2[k].guid

====
